---- MODULE Spec2Model ----
(***************************************************************************)
(* A state-machine model of the LLM orchestration layer of storyagent:     *)
(* LLMService (src/llm_service.py) with its provider registry, startup     *)
(* probing, failover, health reporting and shutdown, and the application   *)
(* lifespan that constructs it (src/main.py).                              *)
(*                                                                         *)
(* Every coroutine is cut at its await points: one action per segment      *)
(* between two awaits.  The backends are the environment: each probe and   *)
(* each adapter call ends with an outcome chosen nondeterministically.     *)
(***************************************************************************)
EXTENDS Integers, Sequences, FiniteSets, TLC

VARIABLES
    settings,          \* the Settings object read by the service (config.py)
    app,               \* position of the application lifespan (main.py)
    mode,              \* how callers use the service: one call at a time, or overlapping
    providers,         \* LLMService.providers: insertion-ordered dict, as a sequence of adapters
    default_provider,  \* LLMService.default_provider
    initialized,       \* LLMService.initialized
    closed,            \* history: close() has run on this service
    scope,             \* what the model keeps of an adapter object: see Issue and Served
    call               \* per caller task: the coroutine in flight, its locals and its outcome

vars == <<settings, app, mode, scope, providers, default_provider, initialized, closed, call>>

-----------------------------------------------------------------------------
(* Values *)

None == "None"

\* class LLMProvider, in the order initialize() lists them in provider_configs
ProviderOrder == <<"openai", "azure", "claude", "gemini", "ollama">>

ProviderIds == {ProviderOrder[n] : n \in 1..Len(ProviderOrder)}

\* caller tasks; task "a" is the one used when calls do not overlap
Tasks == {"a", "b"}

\* temperatures are in tenths: 1 stands for 0.1
DefaultTemperature == 1

\* the generate_text round trips the adapters of one registry complete
MaxCalls == 3

StoryMaxTokens == 4000

HealthMaxTokens == 10

\* the settings the model starts from: which credentials are set, and the default
Configurations ==
    { [DEFAULT_LLM_PROVIDER |-> "openai", OPENAI_API_KEY |-> TRUE,
       AZURE_OPENAI_API_KEY |-> TRUE, AZURE_OPENAI_ENDPOINT |-> TRUE,
       AZURE_OPENAI_DEPLOYMENT_NAME |-> TRUE,
       CLAUDE_API_KEY |-> FALSE, GEMINI_API_KEY |-> FALSE],
      [DEFAULT_LLM_PROVIDER |-> "gemini", OPENAI_API_KEY |-> TRUE,
       AZURE_OPENAI_API_KEY |-> FALSE, AZURE_OPENAI_ENDPOINT |-> FALSE,
       AZURE_OPENAI_DEPLOYMENT_NAME |-> FALSE,
       CLAUDE_API_KEY |-> FALSE, GEMINI_API_KEY |-> TRUE],
      [DEFAULT_LLM_PROVIDER |-> "claude", OPENAI_API_KEY |-> FALSE,
       AZURE_OPENAI_API_KEY |-> TRUE, AZURE_OPENAI_ENDPOINT |-> FALSE,
       AZURE_OPENAI_DEPLOYMENT_NAME |-> TRUE,
       CLAUDE_API_KEY |-> FALSE, GEMINI_API_KEY |-> TRUE],
      [DEFAULT_LLM_PROVIDER |-> "ollama", OPENAI_API_KEY |-> FALSE,
       AZURE_OPENAI_API_KEY |-> FALSE, AZURE_OPENAI_ENDPOINT |-> FALSE,
       AZURE_OPENAI_DEPLOYMENT_NAME |-> FALSE,
       CLAUDE_API_KEY |-> TRUE, GEMINI_API_KEY |-> FALSE] }

\* a generation request: prompt, system message, temperature, max tokens, extras
NoRequest ==
    [prompt |-> None, system_message |-> None, temperature |-> 0,
     max_tokens |-> 0, extras |-> None]

Requests ==
    { [prompt |-> "p1", system_message |-> None, temperature |-> DefaultTemperature,
       max_tokens |-> 0, extras |-> None],
      [prompt |-> "p2", system_message |-> "s2", temperature |-> 7,
       max_tokens |-> 50, extras |-> "stop" ] }

\* the provider argument of a call: absent, empty, a known id, or an unknown one
ProviderArgs == {None, ""} \cup ProviderIds \cup {"mistral"}

\* what a backend does with a liveness probe
ProbeOutcomes == {"ok", "unavailable", "fault"}

NoError == [type |-> "none", provider |-> None, available |-> <<>>]

\* an LLMResponse: tokens_used and cost of 0 stand for None
NoResponse == [content |-> <<>>, provider |-> None, tokens_used |-> 0, cost |-> 0, latency |-> 0]

\* model text is a sequence of tokens: brackets, comma, the JSON objects "A" and
\* "B" (story records with that title), the JSON number "3", and prose "w"
Texts ==
    { <<"[", "A", "]">>,
      <<"w", "[", "A", "]", "w">>,
      <<"3">>,
      <<"w">> }

-----------------------------------------------------------------------------
(* The registry: a Python dict, which keeps insertion order *)

\* list(self.providers.keys())
Keys(provs) == [n \in 1..Len(provs) |-> provs[n].id]

KeySet(provs) == {provs[n].id : n \in 1..Len(provs)}

\* self.providers[key] = adapter: a new key goes last, an old key keeps its place
DictSet(provs, adapter) ==
    IF adapter.id \in KeySet(provs)
    THEN [n \in 1..Len(provs) |-> IF provs[n].id = adapter.id THEN adapter ELSE provs[n]]
    ELSE Append(provs, adapter)

-----------------------------------------------------------------------------
(* Settings and the adapters' probes *)

\* Settings.llm_config: the configuration of the default provider only
llm_config(s) ==
    CASE s.DEFAULT_LLM_PROVIDER = "openai" -> [present |-> TRUE, api_key |-> s.OPENAI_API_KEY]
      [] s.DEFAULT_LLM_PROVIDER = "azure"  -> [present |-> TRUE, api_key |-> s.AZURE_OPENAI_API_KEY]
      [] s.DEFAULT_LLM_PROVIDER = "gemini" -> [present |-> TRUE, api_key |-> s.GEMINI_API_KEY]
      [] s.DEFAULT_LLM_PROVIDER = "claude" -> [present |-> TRUE, api_key |-> s.CLAUDE_API_KEY]
      [] s.DEFAULT_LLM_PROVIDER = "ollama" -> [present |-> TRUE, api_key |-> FALSE]
      [] OTHER -> [present |-> FALSE, api_key |-> FALSE]

NoConfig == [present |-> FALSE, api_key |-> FALSE]

_get_azure_config(s) ==
    IF s.AZURE_OPENAI_API_KEY /\ s.AZURE_OPENAI_ENDPOINT /\ s.AZURE_OPENAI_DEPLOYMENT_NAME
    THEN [present |-> TRUE, api_key |-> TRUE]
    ELSE NoConfig

_get_claude_config(s) ==
    IF s.CLAUDE_API_KEY THEN [present |-> TRUE, api_key |-> TRUE] ELSE NoConfig

_get_gemini_config(s) ==
    IF s.GEMINI_API_KEY THEN [present |-> TRUE, api_key |-> TRUE] ELSE NoConfig

\* the Ollama configuration holds a base url and a model, no api key
_get_ollama_config(s) == [present |-> TRUE, api_key |-> FALSE]

\* provider_configs of initialize()
provider_configs(s, p) ==
    CASE p = "openai" -> (IF s.DEFAULT_LLM_PROVIDER = "openai" THEN llm_config(s) ELSE NoConfig)
      [] p = "azure"  -> _get_azure_config(s)
      [] p = "claude" -> _get_claude_config(s)
      [] p = "gemini" -> _get_gemini_config(s)
      [] p = "ollama" -> _get_ollama_config(s)

\* the condition under which initialize() constructs and probes provider p
Configured(s, p) ==
    LET config == provider_configs(s, p)
    IN  (config.present /\ config.api_key) \/ p = "ollama"

\* the position in ProviderOrder of the first configured provider after position n
\* (Len(ProviderOrder) + 1 when there is none)
RECURSIVE NextConfigured(_, _)
NextConfigured(s, n) ==
    IF n + 1 > Len(ProviderOrder) THEN Len(ProviderOrder) + 1
    ELSE IF Configured(s, ProviderOrder[n + 1]) THEN n + 1
    ELSE NextConfigured(s, n + 1)

\* <Backend>Provider.initialize(): every exception of the probe is caught and
\* turned into False; True only when the round trip succeeded
AdapterInitialize(outcome) == outcome = "ok"

\* except Exception as e: logger.error(...); return False: whatever the probe
\* did, no exception leaves <Backend>Provider.initialize()
AdapterInitializeRaises(outcome) == FALSE

\* max_tokens=self.config.get("max_tokens", 4000) of ClaudeProvider
ClaudeMaxTokens == 4000

\* the max_tokens an adapter's chat model is constructed with (0: none is set);
\* no provider configuration of the service carries a max_tokens entry
ConfiguredMaxTokens(p) == IF p = "claude" THEN ClaudeMaxTokens ELSE 0

\* LLMUsageStats(); average_latency is the exact fraction num/den, a time of 0
\* in last_request stands for None
NoStats ==
    [total_requests |-> 0, total_tokens |-> 0, total_cost |-> 0,
     average_latency |-> [num |-> 0, den |-> 1], error_count |-> 0, last_request |-> 0]

\* an adapter instance after its initialize(): probe records what initialize()
\* returned, temperature and max_tokens are the fields of its chat model
Adapter(p, result) ==
    [id |-> p, probe |-> result, temperature |-> DefaultTemperature,
     max_tokens |-> ConfiguredMaxTokens(p), usage_stats |-> NoStats]

\* the adapters whose generate_text and generate_streaming write max_tokens
SetsMaxTokens == {"openai", "azure", "claude"}

\* "Update model parameters": self.chat_model.temperature = temperature, and
\* if max_tokens: self.chat_model.max_tokens = max_tokens
SetParameters(adapter, req) ==
    [adapter EXCEPT !.temperature = req.temperature,
                    !.max_tokens = IF adapter.id \in SetsMaxTokens /\ req.max_tokens # 0
                                   THEN req.max_tokens ELSE @]

\* the parameters a round trip started now on the adapter runs with
Parameters(adapter) == [temperature |-> adapter.temperature, max_tokens |-> adapter.max_tokens]

NoParameters == [temperature |-> 0, max_tokens |-> 0]

\* OpenAIProvider._estimate_cost, in millionths of a dollar:
\* (tokens / 1000) * ((0.03 + 0.06) / 2)
_estimate_cost(tokens) == tokens * 45

\* variant: the failure path counts the call as a request as well
CountFailureAsRequest(stats) ==
    [stats EXCEPT !.error_count = @ + 1, !.total_requests = @ + 1]

\* except Exception: self.usage_stats.error_count += 1
CountFailure(stats) == [stats EXCEPT !.error_count = @ + 1]

\* variant: a response without a measured latency is not counted at all
UpdateTimedOnly(stats, response, t) ==
    IF response.latency = 0 THEN stats
    ELSE [total_requests  |-> stats.total_requests + 1,
          total_tokens    |-> stats.total_tokens + response.tokens_used,
          total_cost      |-> stats.total_cost + response.cost,
          average_latency |-> [num |-> stats.average_latency.num * stats.total_requests
                                          + response.latency * stats.average_latency.den,
                               den |-> stats.average_latency.den * (stats.total_requests + 1)],
          error_count     |-> stats.error_count,
          last_request    |-> t]

\* BaseLLMProvider.update_usage_stats at time t
update_usage_stats(stats, response, t) ==
    LET total_requests == stats.total_requests + 1
        total_latency  == [num |-> stats.average_latency.num * (total_requests - 1),
                           den |-> stats.average_latency.den]
    IN  [total_requests  |-> total_requests,
         total_tokens    |-> IF response.tokens_used # 0
                             THEN stats.total_tokens + response.tokens_used
                             ELSE stats.total_tokens,
         total_cost      |-> IF response.cost # 0
                             THEN stats.total_cost + response.cost
                             ELSE stats.total_cost,
         average_latency |-> IF response.latency # 0
                             THEN [num |-> total_latency.num + response.latency * total_latency.den,
                                   den |-> total_latency.den * total_requests]
                             ELSE stats.average_latency,
         error_count     |-> stats.error_count,
         last_request    |-> t]

\* the adapter of key p
Lookup(provs, p) == provs[CHOOSE n \in 1..Len(provs) : provs[n].id = p]

\* The fields of an adapter object that LLMService never reads (the parameters
\* of its chat model, its usage stats) are kept under scope "adapters".  Under
\* scope "registry" the model abstracts from them: an adapter is its id and the
\* result of its probe, its other fields stay as constructed and the
\* parameters of a call are not recorded.

\* the registry once the adapter of key p has begun a call for request req; a
\* key that is gone leaves the registry as it is
Issue(provs, p, req) ==
    IF scope = "adapters"
    THEN [n \in 1..Len(provs) |->
             IF provs[n].id = p THEN SetParameters(provs[n], req) ELSE provs[n]]
    ELSE provs

\* the parameters that call runs with
Ran(provs, p, req) ==
    IF scope = "adapters"
    THEN Parameters(SetParameters(Lookup(provs, p), req))
    ELSE NoParameters

RECURSIVE Completed(_)
\* the generate_text round trips the registered adapters have completed
Completed(provs) ==
    IF provs = <<>> THEN 0
    ELSE Head(provs).usage_stats.total_requests + Head(provs).usage_stats.error_count
             + Completed(Tail(provs))

\* datetime.utcnow(): time is counted in completed round trips of the
\* registered adapters, so that a later reading is a larger one
Clock(provs) == Completed(provs) + 1

-----------------------------------------------------------------------------
(* json.loads and the bracket search of generate_user_stories *)

NoValue == [type |-> "none", title |-> None, items |-> <<>>]

ParseFail == [ok |-> FALSE, val |-> NoValue, next |-> 0]

\* one JSON value starting at token n: an object, a number, or an array of values
RECURSIVE ParseValue(_, _), ParseElements(_, _, _)
ParseValue(toks, n) ==
    IF n > Len(toks) THEN ParseFail
    ELSE CASE toks[n] \in {"A", "B"} ->
                [ok |-> TRUE, val |-> [type |-> "object", title |-> toks[n], items |-> <<>>],
                 next |-> n + 1]
           [] toks[n] = "3" ->
                [ok |-> TRUE, val |-> [type |-> "number", title |-> None, items |-> <<>>],
                 next |-> n + 1]
           [] toks[n] = "[" ->
                IF n + 1 <= Len(toks) /\ toks[n + 1] = "]"
                THEN [ok |-> TRUE, val |-> [type |-> "array", title |-> None, items |-> <<>>],
                      next |-> n + 2]
                ELSE ParseElements(toks, n + 1, <<>>)
           [] OTHER -> ParseFail

\* the elements of an array after its "[", up to and including its "]"
ParseElements(toks, n, acc) ==
    LET r == ParseValue(toks, n)
    IN  IF ~r.ok \/ r.next > Len(toks) THEN ParseFail
        ELSE IF toks[r.next] = "]"
             THEN [ok |-> TRUE,
                   val |-> [type |-> "array", title |-> None, items |-> Append(acc, r.val)],
                   next |-> r.next + 1]
        ELSE IF toks[r.next] = ","
             THEN ParseElements(toks, r.next + 1, Append(acc, r.val))
        ELSE ParseFail

\* json.loads(text): the value when the whole text is one JSON document,
\* JSONDecodeError (ok = FALSE) otherwise
JsonLoads(toks) ==
    LET r == ParseValue(toks, 1)
    IN  IF r.ok /\ r.next = Len(toks) + 1
        THEN [ok |-> TRUE, val |-> r.val]
        ELSE [ok |-> FALSE, val |-> NoValue]

Positions(toks, tok) == {n \in 1..Len(toks) : toks[n] = tok}

Min(S) == CHOOSE x \in S : \A y \in S : x <= y

Max(S) == CHOOSE x \in S : \A y \in S : x >= y

\* variant: no search is made, as if the pattern never matched
BracketSearchNone(toks) == [found |-> FALSE, span |-> <<>>]

\* re.search(r'\[.*\]', text, re.DOTALL): leftmost "[", and, the star being
\* greedy, the last "]" of the text
BracketSearch(toks) ==
    LET opens  == Positions(toks, "[")
        closes == Positions(toks, "]")
    IN  IF opens # {} /\ closes # {} /\ Min(opens) < Max(closes)
        THEN [found |-> TRUE, span |-> SubSeq(toks, Min(opens), Max(closes))]
        ELSE [found |-> FALSE, span |-> <<>>]

\* the parsing stage of generate_user_stories on the response content
ParseStories(content) ==
    LET whole == JsonLoads(content)
        m     == BracketSearch(content)
        inner == JsonLoads(m.span)
    IN  IF whole.ok
        THEN IF whole.val.type = "number"
             THEN [kind |-> "raise", error |-> "TypeError", stories |-> NoValue]
             ELSE [kind |-> "return", error |-> None, stories |-> whole.val]
        ELSE IF m.found
             THEN IF inner.ok
                  THEN [kind |-> "return", error |-> None, stories |-> inner.val]
                  ELSE [kind |-> "raise", error |-> "JSONDecodeError", stories |-> NoValue]
        ELSE [kind |-> "return", error |-> None,
              stories |-> [type |-> "array", title |-> None, items |-> <<>>]]

-----------------------------------------------------------------------------
(* Adapter calls, errors and the record of a coroutine *)

NotInitializedError == [type |-> "not_initialized", provider |-> None, available |-> <<>>]

\* ValueError("Provider '<name>' not available. Available: <keys>")
NotAvailableError(name, keys) == [type |-> "not_available", provider |-> name, available |-> keys]

\* ValueError("Provider '<name>' not found")
NotFoundError(name) == [type |-> "not_found", provider |-> name, available |-> <<>>]

\* the exception an adapter's generate_text or generate_streaming re-raises
ProviderError(p) == [type |-> "provider_error", provider |-> p, available |-> <<>>]

\* an exception raised by the parsing stage
ParseError(name) == [type |-> name, provider |-> None, available |-> <<>>]

\* what a round trip reports and takes: the token usage in the backend's
\* output (0: none reported) and the measured time.time() difference
Usages == {[tokens |-> 0, latency |-> 0], [tokens |-> 5, latency |-> 2]}

\* what a backend does with one generation round trip
GenOutcomes ==
    {[ok |-> TRUE, content |-> text, tokens |-> u.tokens, latency |-> u.latency] :
         text \in Texts, u \in Usages}
        \cup {[ok |-> FALSE, content |-> <<>>, tokens |-> 0, latency |-> 0]}

\* variant: every adapter builds its response with the id "openai"
AdapterGenerateTextAsOpenAI(p, outcome) ==
    IF outcome.ok
    THEN [ok |-> TRUE,
          response |-> [content |-> outcome.content, provider |-> "openai",
                        tokens_used |-> IF p \in {"openai", "azure"} THEN outcome.tokens ELSE 0,
                        cost |-> IF p = "openai" THEN _estimate_cost(outcome.tokens) ELSE 0,
                        latency |-> outcome.latency],
          error |-> NoError]
    ELSE [ok |-> FALSE, response |-> NoResponse, error |-> ProviderError(p)]

\* <Backend>Provider.generate_text: the response carries the adapter's own id;
\* OpenAI and Azure read the token usage, OpenAI estimates a cost from it,
\* Ollama reports a cost of 0.0, Claude and Gemini report neither
AdapterGenerateText(p, outcome) ==
    IF outcome.ok
    THEN [ok |-> TRUE,
          response |-> [content |-> outcome.content, provider |-> p,
                        tokens_used |-> IF p \in {"openai", "azure"} THEN outcome.tokens ELSE 0,
                        cost |-> IF p = "openai" THEN _estimate_cost(outcome.tokens) ELSE 0,
                        latency |-> outcome.latency],
          error |-> NoError]
    ELSE [ok |-> FALSE, response |-> NoResponse, error |-> ProviderError(p)]

\* task u is suspended in a generate_text of the adapter of key p
InFlightOn(u, p) ==
    \/ call[u].pc \in {"target", "probe"} /\ call[u].op # "initialize"
           /\ call[u].provider_name = p
    \/ call[u].pc = "fallback" /\ call[u].fallback_providers[call[u].n] = p

\* variant: the counters are read before the await and written back after it,
\* so that of two overlapping calls one update is lost
AccountLostUpdate(adapter, r, t) ==
    IF Cardinality({u \in Tasks : InFlightOn(u, adapter.id)}) > 1
    THEN adapter
    ELSE [adapter EXCEPT !.usage_stats = IF r.ok THEN update_usage_stats(@, r.response, t)
                                         ELSE CountFailure(@)]

\* the adapter after its generate_text ended at time t: update_usage_stats on
\* the way out of the try block, the error count in its except block
Account(adapter, r, t) ==
    [adapter EXCEPT !.usage_stats = IF r.ok THEN update_usage_stats(@, r.response, t)
                                    ELSE CountFailure(@)]

\* the request generate_user_stories sends through generate_text
StoryRequest ==
    [prompt |-> "stories", system_message |-> "analyst", temperature |-> DefaultTemperature,
     max_tokens |-> StoryMaxTokens, extras |-> None]

\* the probe of health_check: generate_text("Hello", max_tokens=10)
HealthRequest ==
    [prompt |-> "Hello", system_message |-> None, temperature |-> DefaultTemperature,
     max_tokens |-> HealthMaxTokens, extras |-> None]

\* a key that an entry of a report does not have
Absent == -1

NoHealth == [initialized |-> FALSE, default_provider |-> None, providers |-> <<>>]

NoReturn ==
    [kind |-> "none", flag |-> FALSE, response |-> NoResponse, error |-> NoError,
     stories |-> NoValue, stats |-> <<>>]

Returned == [NoReturn EXCEPT !.kind = "return"]

Raised(err) == [NoReturn EXCEPT !.kind = "raise", !.error = err]

\* a task with no coroutine
IdleCall ==
    [op |-> "none", pc |-> "idle", req |-> NoRequest, provider |-> None,
     provider_name |-> None, fallback_providers |-> <<>>, n |-> 0, e |-> NoError,
     initialized_count |-> 0, default0 |-> None, keys0 |-> <<>>, probes |-> <<>>,
     ran |-> NoParameters, calls |-> <<>>, health_status |-> NoHealth, response |-> <<>>,
     emitted |-> <<>>, received |-> <<>>, ret |-> NoReturn]

Quiescent(t) == call[t].pc \in {"idle", "done"}

\* a caller may start a coroutine on task t
MayStart(t) ==
    /\ app = "serving"
    /\ Quiescent(t)
    /\ mode = "concurrent" \/ (t = "a" /\ \A u \in Tasks : Quiescent(u))

Done(c, r) == [c EXCEPT !.pc = "done", !.ret = r]

-----------------------------------------------------------------------------
(* main.py: the application lifespan *)

\* startup: the collaborating services are initialized and an exception of
\* theirs ends the startup; then LLMService() is constructed and stored in
\* app.state, and the startup neither awaits llm_service.initialize() nor looks
\* at any result of it
Lifespan(outcome) ==
    /\ app = "starting"
    /\ app' = IF outcome = "ok" THEN "serving" ELSE "halted"
    /\ UNCHANGED <<settings, mode, providers, default_provider, initialized, scope, closed, call>>

-----------------------------------------------------------------------------
(* LLMService.initialize *)

\* variant: the adapter is registered whatever its probe returned
RegisterAlways(provs, adapter) == DictSet(provs, adapter)

\* if await provider.initialize(): self.providers[name] = provider
RegisterIfProbed(provs, adapter) ==
    IF adapter.probe THEN DictSet(provs, adapter) ELSE provs

\* variant: the default provider is never checked against the registry
InitializeFinishKeepDefault(count, provs, default, init) ==
    IF count = 0
    THEN [default_provider |-> default, initialized |-> init, flag |-> FALSE]
    ELSE [default_provider |-> default, initialized |-> TRUE, flag |-> TRUE]

\* variant: initialize() sets the flag even when no provider answered its probe
InitializeFinishAlwaysReady(count, provs, default, init) ==
    IF count = 0
    THEN [default_provider |-> default, initialized |-> TRUE, flag |-> FALSE]
    ELSE IF default \notin KeySet(provs)
         THEN [default_provider |-> Keys(provs)[1], initialized |-> TRUE, flag |-> TRUE]
         ELSE [default_provider |-> default, initialized |-> TRUE, flag |-> TRUE]

\* the end of initialize(), after the loop: what becomes of default_provider
\* and initialized, and what is returned
InitializeFinish(count, provs, default, init) ==
    IF count = 0
    THEN [default_provider |-> default, initialized |-> init, flag |-> FALSE]
    ELSE IF default \notin KeySet(provs)
         THEN IF Len(provs) = 0
              \* list(self.providers.keys())[0] raises IndexError, caught: return False
              THEN [default_provider |-> default, initialized |-> init, flag |-> FALSE]
              ELSE [default_provider |-> Keys(provs)[1], initialized |-> TRUE, flag |-> TRUE]
         ELSE [default_provider |-> default, initialized |-> TRUE, flag |-> TRUE]

\* one probe in the log of an initialize() run: the adapter, what its backend
\* did, and how the adapter's initialize() ended
ProbeEntry(adapter, outcome) ==
    [id |-> adapter.id, probe |-> adapter.probe, outcome |-> outcome,
     raised |-> AdapterInitializeRaises(outcome)]

\* initialize() up to its first await: the probe of the first configured provider
InitializeStart(t) ==
    /\ MayStart(t)
    /\ call' = [call EXCEPT ![t] =
                   [IdleCall EXCEPT !.op = "initialize", !.pc = "probe",
                                    !.n = NextConfigured(settings, 0),
                                    !.default0 = default_provider,
                                    !.keys0 = Keys(providers)]]
    /\ UNCHANGED <<settings, app, mode, providers, default_provider, initialized, scope, closed>>

\* the probe of provider n comes back: register the adapter or not, then go on
\* to the next configured provider, or finish
InitializeProbe(t, outcome) ==
    LET c       == call[t]
        p       == ProviderOrder[c.n]
        adapter == Adapter(p, AdapterInitialize(outcome))
        provs   == RegisterIfProbed(providers, adapter)
        count   == IF adapter.probe
                   THEN c.initialized_count + 1 ELSE c.initialized_count
        next    == NextConfigured(settings, c.n)
        c1      == [c EXCEPT !.n = next, !.initialized_count = count,
                             !.probes = Append(c.probes, ProbeEntry(adapter, outcome))]
        fin     == InitializeFinish(count, provs, default_provider, initialized)
    IN  /\ c.op = "initialize" /\ c.pc = "probe"
        /\ providers' = provs
        /\ IF next <= Len(ProviderOrder)
           THEN /\ call' = [call EXCEPT ![t] = c1]
                /\ UNCHANGED <<default_provider, initialized>>
           ELSE /\ call' = [call EXCEPT ![t] = Done(c1, [Returned EXCEPT !.flag = fin.flag])]
                /\ default_provider' = fin.default_provider
                /\ initialized' = fin.initialized
        /\ UNCHANGED <<settings, app, mode, scope, closed>>

-----------------------------------------------------------------------------
(* LLMService.close *)

\* variant: close() forgets to clear the flag
CloseKeepsReady == TRUE

\* what close() leaves in self.initialized
CloseInitialized == FALSE

\* variant: close() leaves the adapters in the registry
CloseKeepsProviders(provs) == provs

\* self.providers.clear()
CloseProviders(provs) == <<>>

close(t) ==
    /\ MayStart(t)
    /\ providers' = CloseProviders(providers)
    /\ initialized' = CloseInitialized
    /\ closed' = TRUE
    /\ call' = [call EXCEPT ![t] = Done([IdleCall EXCEPT !.op = "close"], Returned)]
    /\ UNCHANGED <<settings, app, mode, scope, default_provider>>

-----------------------------------------------------------------------------
(* LLMService.generate_text and generate_user_stories *)

\* variant: no readiness check
NeverRefuses(init) == FALSE

\* if not self.initialized: raise RuntimeError("LLM service not initialized")
NotInitialized(init) == ~init

\* provider_name = provider or self.default_provider
ResolveProvider(provider, default) ==
    IF provider \in {None, ""} THEN default ELSE provider

\* variant: every key is retried, the target included
FallbackAll(provs, provider_name) == Keys(provs)

\* variant: the other keys in reverse registry order
FallbackReversed(provs, provider_name) ==
    LET others == SelectSeq(Keys(provs), LAMBDA p : p # provider_name)
    IN  [k \in 1..Len(others) |-> others[Len(others) + 1 - k]]

\* the adapters tried after the target failed: none unless more than one is
\* registered, else every other key in registry order
FallbackProviders(provs, provider_name) ==
    IF Len(provs) > 1
    THEN SelectSeq(Keys(provs), LAMBDA p : p # provider_name)
    ELSE <<>>

\* variant: the last fallback's exception is raised
RaiseLast(e, fallback_error) == IF fallback_error = NoError THEN e ELSE fallback_error

\* raise e: the exception that leaves generate_text when every attempt failed
RaiseAfterFailover(e, fallback_error) == e

\* variant: the message lists every known provider id
UnavailableListsAll(provider_name, provs) ==
    NotAvailableError(provider_name, ProviderOrder)

\* the error raised for a provider name that is not a key of the registry
UnavailableError(provider_name, provs) ==
    NotAvailableError(provider_name, Keys(provs))

\* how a finished generate_text ends the coroutine that ran it:
\* generate_text hands the outcome on, generate_user_stories parses a response
\* and re-raises an error
Outcome(c, ok, response, err) ==
    IF ~ok THEN Done(c, Raised(err))
    ELSE IF c.op = "generate_user_stories"
         THEN LET parsed == ParseStories(response.content)
              IN  IF parsed.kind = "return"
                  THEN Done(c, [Returned EXCEPT !.stories = parsed.stories])
                  ELSE Done(c, Raised(ParseError(parsed.error)))
         ELSE Done(c, [Returned EXCEPT !.response = response])

\* generate_text up to its first await: the readiness check, the resolution of
\* the provider name, and the call of the target adapter
StartGeneration(t, op, req, provider) ==
    LET provider_name == ResolveProvider(provider, default_provider)
        c == [IdleCall EXCEPT !.op = op, !.req = req, !.provider = provider]
    IN  /\ MayStart(t)
        /\ call' = [call EXCEPT ![t] =
                      IF NotInitialized(initialized)
                      THEN Done(c, Raised(NotInitializedError))
                      ELSE IF provider_name \notin KeySet(providers)
                           THEN Done([c EXCEPT !.provider_name = provider_name],
                                     Raised(UnavailableError(provider_name, providers)))
                           ELSE [c EXCEPT !.provider_name = provider_name, !.pc = "target",
                                          !.ran = Ran(providers, provider_name, req)]]
        /\ providers' = IF ~NotInitialized(initialized) /\ provider_name \in KeySet(providers)
                        THEN Issue(providers, provider_name, req)
                        ELSE providers
        /\ UNCHANGED <<settings, app, mode, default_provider, initialized, scope, closed>>

generate_text(t, req, provider) == StartGeneration(t, "generate_text", req, provider)

generate_user_stories(t, provider) ==
    StartGeneration(t, "generate_user_stories", StoryRequest, provider)

\* one adapter call in the log of a coroutine: the adapter, the request passed
\* to it, the parameters its chat model ran with, and how it ended
CallEntry(p, req, ran, r) ==
    [provider |-> p, req |-> req, ran |-> ran, ok |-> r.ok, content |-> r.response.content,
     tokens_used |-> r.response.tokens_used, latency |-> r.response.latency]

\* after the target adapter's call came back: return its response, or, after an
\* error, compute the fallback list and call the first fallback
AfterTarget(c, r, provs) ==
    LET c1  == [c EXCEPT !.calls = Append(c.calls, CallEntry(c.provider_name, c.req, c.ran, r))]
        fbs == FallbackProviders(provs, c.provider_name)
    IN  IF r.ok THEN Outcome(c1, TRUE, r.response, NoError)
        ELSE IF fbs = <<>>
             THEN Outcome([c1 EXCEPT !.e = r.error], FALSE, NoResponse,
                          RaiseAfterFailover(r.error, NoError))
             ELSE [c1 EXCEPT !.e = r.error, !.fallback_providers = fbs,
                             !.n = 1, !.pc = "fallback",
                             !.ran = Ran(provs, fbs[1], c.req)]

\* the position of the first fallback after position n that is still a key of
\* the registry (a lookup of a missing key raises KeyError, which the loop
\* catches like any failure); Len(fbs) + 1 when there is none
RECURSIVE NextFallback(_, _, _)
NextFallback(fbs, n, provs) ==
    IF n + 1 > Len(fbs) THEN Len(fbs) + 1
    ELSE IF fbs[n + 1] \in KeySet(provs) THEN n + 1
    ELSE NextFallback(fbs, n + 1, provs)

\* variant: a success does not end the loop; the last fallback's outcome counts
AfterFallbackLastWins(c, r, provs) ==
    LET fallback == c.fallback_providers[c.n]
        c1   == [c EXCEPT !.calls = Append(c.calls, CallEntry(fallback, c.req, c.ran, r))]
        next == NextFallback(c.fallback_providers, c.n, provs)
    IN  IF next > Len(c.fallback_providers)
        THEN IF r.ok THEN Outcome(c1, TRUE, r.response, NoError)
             ELSE Outcome(c1, FALSE, NoResponse, RaiseAfterFailover(c.e, r.error))
        ELSE [c1 EXCEPT !.n = next, !.ran = Ran(provs, c.fallback_providers[next], c.req)]

\* after the call of fallback n came back: the first success is returned, a
\* failure moves on to the next fallback, and after the last one the original
\* error is raised
AfterFallback(c, r, provs) ==
    LET fallback == c.fallback_providers[c.n]
        c1   == [c EXCEPT !.calls = Append(c.calls, CallEntry(fallback, c.req, c.ran, r))]
        next == NextFallback(c.fallback_providers, c.n, provs)
    IN  IF r.ok THEN Outcome(c1, TRUE, r.response, NoError)
        ELSE IF next > Len(c.fallback_providers)
             THEN Outcome(c1, FALSE, NoResponse, RaiseAfterFailover(c.e, r.error))
             ELSE [c1 EXCEPT !.n = next, !.ran = Ran(provs, c.fallback_providers[next], c.req)]

\* variant: an adapter whose call failed is taken out of the registry
ServedEvicts(provs, p, r, t) ==
    IF r.ok THEN provs ELSE SelectSeq(provs, LAMBDA adapter : adapter.id # p)

\* the registry once the adapter of key p has accounted for the call that
\* ended with r at time t
Served(provs, p, r, t) ==
    IF scope = "adapters"
    THEN [n \in 1..Len(provs) |->
             IF provs[n].id = p THEN Account(provs[n], r, t) ELSE provs[n]]
    ELSE provs

\* the registry once the coroutine has begun its next fallback call, if any
IssueFallback(c, provs) ==
    IF c.pc = "fallback" THEN Issue(provs, c.fallback_providers[c.n], c.req) ELSE provs

\* the target adapter's call comes back
GenerateTextTarget(t, outcome) ==
    LET c     == call[t]
        r     == AdapterGenerateText(c.provider_name, outcome)
        provs == Served(providers, c.provider_name, r, Clock(providers))
        c1    == AfterTarget(c, r, provs)
    IN  /\ c.op \in {"generate_text", "generate_user_stories"} /\ c.pc = "target"
        /\ Completed(providers) < MaxCalls
        /\ call' = [call EXCEPT ![t] = c1]
        /\ providers' = IssueFallback(c1, provs)
        /\ UNCHANGED <<settings, app, mode, scope, closed, default_provider, initialized>>

\* the call of fallback n comes back
GenerateTextFallback(t, outcome) ==
    LET c        == call[t]
        fallback == c.fallback_providers[c.n]
        r        == AdapterGenerateText(fallback, outcome)
        provs    == Served(providers, fallback, r, Clock(providers))
        c1       == AfterFallback(c, r, provs)
    IN  /\ c.op \in {"generate_text", "generate_user_stories"} /\ c.pc = "fallback"
        /\ Completed(providers) < MaxCalls
        /\ call' = [call EXCEPT ![t] = c1]
        /\ providers' = IssueFallback(c1, provs)
        /\ UNCHANGED <<settings, app, mode, scope, closed, default_provider, initialized>>

-----------------------------------------------------------------------------
(* LLMService.generate_streaming *)

\* the most fragments a token stream yields in the model
MaxFragments == 2

\* chunk_size = 20 of GeminiProvider.generate_streaming
chunk_size == 20

\* the longest text the Gemini backend answers a streaming request with
MaxStreamLen == 41

\* a text of L characters, all different
Str(L) == [k \in 1..L |-> k]

\* the texts of the Gemini backend: empty, shorter than a chunk, one chunk
\* exactly, and the longest
StreamTexts == {Str(L) : L \in {0, chunk_size - 1, chunk_size, MaxStreamLen}}

\* what a backend does with the call that opens a Gemini stream
StreamOutcomes == {[ok |-> TRUE, content |-> text] : text \in StreamTexts}
                      \cup {[ok |-> FALSE, content |-> <<>>]}

RECURSIVE Concat(_)
Concat(fragments) ==
    IF fragments = <<>> THEN <<>> ELSE Head(fragments) \o Concat(Tail(fragments))

\* the entry of the target adapter's stream in the log of a coroutine
StreamEntry(c, ok) ==
    CallEntry(c.provider_name, c.req, c.ran, [ok |-> ok, response |-> NoResponse])

\* generate_streaming up to its first await: the same checks as generate_text,
\* then the target adapter's stream is opened, which sets the parameters of its
\* chat model
generate_streaming(t, req, provider) ==
    LET provider_name == ResolveProvider(provider, default_provider)
        c == [IdleCall EXCEPT !.op = "generate_streaming", !.req = req, !.provider = provider]
        c1 == [c EXCEPT !.provider_name = provider_name, !.pc = "stream",
                        !.ran = Ran(providers, provider_name, req)]
    IN  /\ MayStart(t)
        /\ call' = [call EXCEPT ![t] =
                      IF NotInitialized(initialized)
                      THEN Done(c, Raised(NotInitializedError))
                      ELSE IF provider_name \notin KeySet(providers)
                           THEN Done([c EXCEPT !.provider_name = provider_name],
                                     Raised(UnavailableError(provider_name, providers)))
                           ELSE [c1 EXCEPT !.calls = <<StreamEntry(c1, TRUE)>>]]
        /\ providers' = IF ~NotInitialized(initialized) /\ provider_name \in KeySet(providers)
                        THEN Issue(providers, provider_name, req)
                        ELSE providers
        /\ UNCHANGED <<settings, app, mode, default_provider, initialized, scope, closed>>

\* async for token in llm_provider.generate_streaming(...): yield token
Relay(received, token) == Append(received, token)

\* variant: after an error the stream of the next registered adapter is opened
AfterStreamErrorFailover(c, provs) ==
    LET fbs == FallbackProviders(provs, c.provider_name)
    IN  IF fbs = <<>>
        THEN Done([c EXCEPT !.calls = <<StreamEntry(c, FALSE)>>],
                  Raised(ProviderError(c.provider_name)))
        ELSE [c EXCEPT !.calls = <<StreamEntry(c, FALSE),
                                   StreamEntry([c EXCEPT !.provider_name = fbs[1]], TRUE)>>,
                       !.provider_name = fbs[1]]

\* except Exception as e: log and raise; the adapter's error goes to the consumer
AfterStreamError(c, provs) ==
    Done([c EXCEPT !.calls = <<StreamEntry(c, FALSE)>>],
         Raised(ProviderError(c.provider_name)))

\* variant: the except block of a stream counts the error
StreamServedCountsError(provs, p, event) ==
    [n \in 1..Len(provs) |->
        IF provs[n].id = p /\ event = "error"
        THEN [provs[n] EXCEPT !.usage_stats = CountFailure(@)]
        ELSE provs[n]]

\* the registry after an event of the stream of the adapter of key p: an
\* adapter's generate_streaming never calls update_usage_stats, and its except
\* block logs and re-raises
StreamServed(provs, p, event) == provs

\* a token stream (every adapter but Gemini's) yields its next fragment, ends,
\* or fails; a fragment is relayed to the consumer as it comes
GenerateStreamingNext(t, event) ==
    LET c == call[t]
        token == Len(c.emitted) + 1
    IN  /\ c.op = "generate_streaming" /\ c.pc = "stream"
        /\ c.provider_name # "gemini"
        /\ event = "fragment" => Len(c.emitted) < MaxFragments
        /\ call' = [call EXCEPT ![t] =
                      CASE event = "fragment" ->
                               [c EXCEPT !.emitted = Append(c.emitted, <<token>>),
                                         !.received = Relay(c.received, <<token>>)]
                        [] event = "end" -> Done(c, Returned)
                        [] event = "error" -> AfterStreamError(c, providers)]
        /\ providers' = StreamServed(providers, c.provider_name, event)
        /\ UNCHANGED <<settings, app, mode, default_provider, initialized, scope, closed>>

\* variant: a chunk ends one character early
GeminiChunkShort(response, i) ==
    SubSeq(response, i + 1, Min({i + chunk_size - 1, Len(response)}))

\* chunk = response[i:i + chunk_size]
GeminiChunk(response, i) ==
    SubSeq(response, i + 1, Min({i + chunk_size, Len(response)}))

\* for i in range(0, len(response), chunk_size): the chunk at i is yielded and
\* relayed, or the loop and with it the stream ends
GeminiLoop(c) ==
    IF c.n < Len(c.response)
    THEN [c EXCEPT !.emitted = Append(c.emitted, GeminiChunk(c.response, c.n)),
                   !.received = Relay(c.received, GeminiChunk(c.response, c.n)),
                   !.n = c.n + chunk_size,
                   !.pc = "chunks"]
    ELSE Done(c, Returned)

\* the Gemini adapter's await self.chat_model.apredict(full_prompt) comes back:
\* with the whole text, of which the first chunk is yielded, or with an error
GeminiStreamingResponse(t, outcome) ==
    LET c == call[t]
    IN  /\ c.op = "generate_streaming" /\ c.pc = "stream"
        /\ c.provider_name = "gemini"
        /\ call' = [call EXCEPT ![t] =
                      IF outcome.ok
                      THEN GeminiLoop([c EXCEPT !.response = outcome.content, !.n = 0])
                      ELSE AfterStreamError(c, providers)]
        /\ providers' = StreamServed(providers, c.provider_name,
                                     IF outcome.ok THEN "fragment" ELSE "error")
        /\ UNCHANGED <<settings, app, mode, default_provider, initialized, scope, closed>>

\* the consumer asks for the next fragment: await asyncio.sleep(0.01) is over
GeminiStreamingNext(t) ==
    LET c == call[t]
    IN  /\ c.op = "generate_streaming" /\ c.pc = "chunks"
        /\ call' = [call EXCEPT ![t] = GeminiLoop(c)]
        /\ UNCHANGED <<settings, app, mode, providers, default_provider, initialized, scope, closed>>

\* the consumer, holding a fragment, stops iterating and closes the generator:
\* GeneratorExit is raised at the yield of the adapter's generator and of the
\* service's, and no `except Exception` catches it
AbandonStreaming(t) ==
    LET c == call[t]
    IN  /\ c.op = "generate_streaming" /\ c.pc \in {"stream", "chunks"}
        /\ c.received # <<>>
        /\ call' = [call EXCEPT ![t] = Done(c, [NoReturn EXCEPT !.kind = "closed"])]
        /\ providers' = StreamServed(providers, c.provider_name, "closed")
        /\ UNCHANGED <<settings, app, mode, default_provider, initialized, scope, closed>>

-----------------------------------------------------------------------------
(* LLMService.health_check and get_provider_stats *)

\* the entry of one provider in the report
HealthEntry(p, r, stats) ==
    IF r.ok
    THEN [provider |-> p, status |-> "healthy", latency |-> TRUE, error |-> NoError,
          error_count |-> stats.error_count, total_requests |-> stats.total_requests]
    ELSE [provider |-> p, status |-> "unhealthy", latency |-> FALSE, error |-> r.error,
          error_count |-> stats.error_count, total_requests |-> Absent]

\* provider.usage_stats of the adapter probed under key p
StatsOf(provs, p) == IF p \in KeySet(provs) THEN Lookup(provs, p).usage_stats ELSE NoStats

\* RuntimeError("dictionary changed size during iteration")
DictChangedError == [type |-> "dict_changed", provider |-> None, available |-> <<>>]

\* health_check up to its first await: the report is begun with the ready flag
\* and the default provider, and the first registered adapter is probed
health_check(t) ==
    LET status == [initialized |-> initialized, default_provider |-> default_provider,
                   providers |-> <<>>]
        c == [IdleCall EXCEPT !.op = "health_check", !.health_status = status,
                              !.keys0 = Keys(providers)]
    IN  /\ MayStart(t)
        /\ call' = [call EXCEPT ![t] =
                      IF Len(providers) = 0
                      THEN Done(c, Returned)
                      ELSE [c EXCEPT !.pc = "probe", !.n = 1,
                                     !.provider_name = providers[1].id,
                                     !.ran = Ran(providers, providers[1].id, HealthRequest)]]
        /\ providers' = IF Len(providers) = 0 THEN providers
                        ELSE Issue(providers, providers[1].id, HealthRequest)
        /\ UNCHANGED <<settings, app, mode, default_provider, initialized, scope, closed>>

\* variant: the exception of a failing probe leaves health_check
AfterHealthProbeRaises(c, r, provs) ==
    LET c1 == [c EXCEPT !.calls = Append(c.calls,
                                         CallEntry(c.provider_name, HealthRequest, c.ran, r)),
                        !.health_status.providers =
                            IF r.ok
                            THEN Append(c.health_status.providers,
                                        HealthEntry(c.provider_name, r,
                                                    StatsOf(provs, c.provider_name)))
                            ELSE c.health_status.providers]
    IN  IF ~r.ok THEN Done(c1, Raised(r.error))
        ELSE IF Len(provs) # Len(c.keys0) THEN Done(c1, Raised(DictChangedError))
        ELSE IF c.n = Len(provs) THEN Done(c1, Returned)
        ELSE [c1 EXCEPT !.n = c.n + 1, !.provider_name = provs[c.n + 1].id,
                        !.ran = Ran(provs, provs[c.n + 1].id, HealthRequest)]

\* after the probe of the n-th adapter came back: its entry is written, and the
\* loop over self.providers.items() goes on to the next adapter, returns the
\* report, or finds that the dict has changed size
AfterHealthProbe(c, r, provs) ==
    LET c1 == [c EXCEPT !.calls = Append(c.calls,
                                         CallEntry(c.provider_name, HealthRequest, c.ran, r)),
                        !.health_status.providers =
                            Append(c.health_status.providers,
                                   HealthEntry(c.provider_name, r,
                                               StatsOf(provs, c.provider_name)))]
    IN  IF Len(provs) # Len(c.keys0) THEN Done(c1, Raised(DictChangedError))
        ELSE IF c.n = Len(provs) THEN Done(c1, Returned)
        ELSE [c1 EXCEPT !.n = c.n + 1, !.provider_name = provs[c.n + 1].id,
                        !.ran = Ran(provs, provs[c.n + 1].id, HealthRequest)]

\* the probe of the n-th registered adapter comes back
HealthCheckProbe(t, outcome) ==
    LET c     == call[t]
        r     == AdapterGenerateText(c.provider_name, outcome)
        provs == Served(providers, c.provider_name, r, Clock(providers))
        c1    == AfterHealthProbe(c, r, provs)
    IN  /\ c.op = "health_check" /\ c.pc = "probe"
        /\ Completed(providers) < MaxCalls
        /\ call' = [call EXCEPT ![t] = c1]
        /\ providers' = IF c1.pc = "probe"
                        THEN Issue(provs, c1.provider_name, HealthRequest)
                        ELSE provs
        /\ UNCHANGED <<settings, app, mode, scope, closed, default_provider, initialized>>

\* one adapter's usage_stats.__dict__ in the result of get_provider_stats
StatsEntry(adapter) == [id |-> adapter.id, usage_stats |-> adapter.usage_stats]

\* variant: an id is ignored and the stats of every adapter are returned
ProviderStatsOfAll(provs, provider) ==
    [Returned EXCEPT !.stats = [n \in 1..Len(provs) |-> StatsEntry(provs[n])]]

\* what get_provider_stats(provider) returns or raises
ProviderStats(provs, provider) ==
    IF provider \notin {None, ""}
    THEN IF provider \in KeySet(provs)
         THEN [Returned EXCEPT !.stats = <<StatsEntry(Lookup(provs, provider))>>]
         ELSE Raised(NotFoundError(provider))
    ELSE [Returned EXCEPT !.stats = [n \in 1..Len(provs) |-> StatsEntry(provs[n])]]

\* get_provider_stats has no await and no readiness check
get_provider_stats(t, provider) ==
    LET c == [IdleCall EXCEPT !.op = "get_provider_stats", !.provider = provider]
    IN  /\ MayStart(t)
        /\ call' = [call EXCEPT ![t] = Done(c, ProviderStats(providers, provider))]
        /\ UNCHANGED <<settings, app, mode, providers, default_provider, initialized, scope, closed>>

-----------------------------------------------------------------------------
(* The specification *)

\* LLMService.__init__, before the lifespan has run
Init ==
    /\ settings \in Configurations
    /\ app = "starting"
    /\ mode = "sequential"
    /\ providers = <<>>
    /\ default_provider = settings.DEFAULT_LLM_PROVIDER
    /\ initialized = FALSE
    /\ closed = FALSE
    /\ scope = "registry"
    /\ call = [t \in Tasks |-> IdleCall]

Next ==
    \/ \E outcome \in {"ok", "error"} : Lifespan(outcome)
    \/ \E t \in Tasks : InitializeStart(t)
    \/ \E t \in Tasks, outcome \in ProbeOutcomes : InitializeProbe(t, outcome)
    \/ \E t \in Tasks : close(t)
    \/ \E t \in Tasks, req \in Requests, provider \in ProviderArgs : generate_text(t, req, provider)
    \/ \E t \in Tasks, provider \in ProviderArgs : generate_user_stories(t, provider)
    \/ \E t \in Tasks, outcome \in GenOutcomes : GenerateTextTarget(t, outcome)
    \/ \E t \in Tasks, outcome \in GenOutcomes : GenerateTextFallback(t, outcome)
    \/ \E t \in Tasks, req \in Requests, provider \in ProviderArgs :
           generate_streaming(t, req, provider)
    \/ \E t \in Tasks, event \in {"fragment", "end", "error"} : GenerateStreamingNext(t, event)
    \/ \E t \in Tasks, outcome \in StreamOutcomes : GeminiStreamingResponse(t, outcome)
    \/ \E t \in Tasks : GeminiStreamingNext(t)
    \/ \E t \in Tasks : AbandonStreaming(t)
    \/ \E t \in Tasks : health_check(t)
    \/ \E t \in Tasks, outcome \in GenOutcomes : HealthCheckProbe(t, outcome)
    \/ \E t \in Tasks, provider \in ProviderArgs : get_provider_stats(t, provider)

Spec == Init /\ [][Next]_vars

\* The same service with the adapter objects in scope: settings that configure
\* OpenAI and Ollama, and fewer different inputs.
AdapterSettings ==
    [DEFAULT_LLM_PROVIDER |-> "openai", OPENAI_API_KEY |-> TRUE,
     AZURE_OPENAI_API_KEY |-> FALSE, AZURE_OPENAI_ENDPOINT |-> FALSE,
     AZURE_OPENAI_DEPLOYMENT_NAME |-> FALSE,
     CLAUDE_API_KEY |-> FALSE, GEMINI_API_KEY |-> FALSE]

AdapterInit ==
    /\ settings = AdapterSettings
    /\ app = "starting"
    /\ mode = "sequential"
    /\ scope = "adapters"
    /\ providers = <<>>
    /\ default_provider = settings.DEFAULT_LLM_PROVIDER
    /\ initialized = FALSE
    /\ closed = FALSE
    /\ call = [t \in Tasks |-> IdleCall]

AdapterProviderArgs == {None, "ollama"}

AdapterOutcomes == {o \in GenOutcomes : o.content \in {<<>>, <<"w">>}}

AdapterNext ==
    \/ Lifespan("ok")
    \/ \E t \in Tasks : InitializeStart(t)
    \/ \E t \in Tasks, outcome \in {"ok", "unavailable"} : InitializeProbe(t, outcome)
    \/ \E t \in Tasks, req \in Requests, provider \in AdapterProviderArgs :
           generate_text(t, req, provider)
    \/ \E t \in Tasks, outcome \in AdapterOutcomes : GenerateTextTarget(t, outcome)
    \/ \E t \in Tasks, outcome \in AdapterOutcomes : GenerateTextFallback(t, outcome)
    \/ \E t \in Tasks, req \in Requests : generate_streaming(t, req, None)
    \/ \E t \in Tasks, event \in {"fragment", "end", "error"} : GenerateStreamingNext(t, event)
    \/ \E t \in Tasks : AbandonStreaming(t)
    \/ \E t \in Tasks : health_check(t)
    \/ \E t \in Tasks, outcome \in AdapterOutcomes : HealthCheckProbe(t, outcome)
    \/ \E t \in Tasks, provider \in AdapterProviderArgs : get_provider_stats(t, provider)

AdapterSpec == AdapterInit /\ [][AdapterNext]_vars

\* The service with the Ollama adapter alone, and every model text of up to
\* MaxTextLen tokens as the content of a response.
ParseSettings ==
    [DEFAULT_LLM_PROVIDER |-> "ollama", OPENAI_API_KEY |-> FALSE,
     AZURE_OPENAI_API_KEY |-> FALSE, AZURE_OPENAI_ENDPOINT |-> FALSE,
     AZURE_OPENAI_DEPLOYMENT_NAME |-> FALSE,
     CLAUDE_API_KEY |-> FALSE, GEMINI_API_KEY |-> FALSE]

ParseInit ==
    /\ settings = ParseSettings
    /\ app = "starting"
    /\ mode = "sequential"
    /\ scope = "registry"
    /\ providers = <<>>
    /\ default_provider = settings.DEFAULT_LLM_PROVIDER
    /\ initialized = FALSE
    /\ closed = FALSE
    /\ call = [t \in Tasks |-> IdleCall]

Tokens == {"[", "]", ",", "A", "3", "w"}

MaxTextLen == 5

AllTexts == UNION {[1..n -> Tokens] : n \in 0..MaxTextLen}

ParseOutcomes ==
    {[ok |-> TRUE, content |-> text, tokens |-> 0, latency |-> 0] : text \in AllTexts}
        \cup {[ok |-> FALSE, content |-> <<>>, tokens |-> 0, latency |-> 0]}

ParseNext ==
    \/ Lifespan("ok")
    \/ \E t \in Tasks : InitializeStart(t)
    \/ \E t \in Tasks, outcome \in {"ok", "unavailable"} : InitializeProbe(t, outcome)
    \/ \E t \in Tasks : generate_user_stories(t, None)
    \/ \E t \in Tasks :
           /\ call[t].pc = "target"
           /\ \E outcome \in ParseOutcomes : GenerateTextTarget(t, outcome)

ParseSpec == ParseInit /\ [][ParseNext]_vars

\* The service with two callers whose generate_text calls overlap on the
\* adapters of one registry.  Every adapter method runs from one await to the
\* next without interruption (asyncio runs the coroutines on one thread).
\* initialize() runs while no call is in flight, so that the adapter objects
\* in the registry are the ones the calls in flight were made on.
SharedInit ==
    /\ settings = AdapterSettings
    /\ app = "starting"
    /\ mode = "concurrent"
    /\ scope = "adapters"
    /\ providers = <<>>
    /\ default_provider = settings.DEFAULT_LLM_PROVIDER
    /\ initialized = FALSE
    /\ closed = FALSE
    /\ call = [t \in Tasks |-> IdleCall]

\* the request of each caller: "a" gives a temperature and a bound of its own,
\* "b" gives neither
RequestOf(t) == CHOOSE req \in Requests : (req.max_tokens = 0) <=> (t = "b")

SharedNext ==
    \/ Lifespan("ok")
    \/ (\A u \in Tasks : Quiescent(u)) /\ InitializeStart("a")
    \/ \E outcome \in {"ok", "unavailable"} : InitializeProbe("a", outcome)
    \/ \E t \in Tasks : generate_text(t, RequestOf(t), None)
    \/ \E t \in Tasks, outcome \in AdapterOutcomes : GenerateTextTarget(t, outcome)
    \/ \E t \in Tasks, outcome \in AdapterOutcomes : GenerateTextFallback(t, outcome)

SharedSpec == SharedInit /\ [][SharedNext]_vars

\* The service with two tasks: "a" calls generate_text and health_check while
\* "b" runs initialize() and close(), so that the registry changes under a call
\* that is suspended at an adapter.
OverlapInit ==
    /\ settings = AdapterSettings
    /\ app = "starting"
    /\ mode = "concurrent"
    /\ scope = "registry"
    /\ providers = <<>>
    /\ default_provider = settings.DEFAULT_LLM_PROVIDER
    /\ initialized = FALSE
    /\ closed = FALSE
    /\ call = [t \in Tasks |-> IdleCall]

\* a round trip succeeds or fails
OverlapOutcomes == {o \in AdapterOutcomes : o.tokens = 0}

OverlapNext ==
    \/ Lifespan("ok")
    \/ InitializeStart("b")
    \/ \E outcome \in {"ok", "unavailable"} : InitializeProbe("b", outcome)
    \/ close("b")
    \/ generate_text("a", RequestOf("a"), None)
    \/ \E outcome \in OverlapOutcomes : GenerateTextTarget("a", outcome)
    \/ \E outcome \in OverlapOutcomes : GenerateTextFallback("a", outcome)
    \/ health_check("a")
    \/ \E outcome \in OverlapOutcomes : HealthCheckProbe("a", outcome)

OverlapSpec == OverlapInit /\ [][OverlapNext]_vars

-----------------------------------------------------------------------------
(* Properties.  They are stated on task "a", the caller whose calls do not   *)
(* overlap under Spec.                                                        *)

A == call["a"]

Finished(op) == A.op = op /\ A.pc = "done"

\* the ids whose probe returned true in the finished run, in probing order
Survivors == Keys(SelectSeq(A.probes, LAMBDA ad : ad.probe))

GenOps == {"generate_text", "generate_user_stories"}

AllFailed == \A k \in 1..Len(A.calls) : ~A.calls[k].ok

\* the order in which generate_text may call adapters: the target, then every
\* other registered adapter in registry order
AttemptOrder ==
    <<A.provider_name>> \o SelectSeq(Keys(providers), LAMBDA p : p # A.provider_name)

\* C1: the registry never holds an adapter whose own initialize() returned
\* false, and after a run of initialize() (not overlapping another run) an id
\* whose probe failed in that run is a key only if it was one before the run
\* (with the adapter of that earlier run, never the one that failed).
C1_RegistryHoldsOnlyProbedAdapters ==
    /\ \A n \in 1..Len(providers) : providers[n].probe
    /\ Finished("initialize") =>
          \A k \in 1..Len(A.probes) :
              (~A.probes[k].probe /\ A.probes[k].id \in KeySet(providers))
                  => \E j \in 1..Len(A.keys0) : A.keys0[j] = A.probes[k].id

C1_Witness ==
    /\ Finished("initialize")
    /\ A.keys0 = <<>>
    /\ \E k \in 1..Len(A.probes) : ~A.probes[k].probe
    /\ Len(providers) >= 1
    /\ \E k \in 1..Len(A.probes) : A.probes[k].id \notin KeySet(providers)

\* C2 (as claimed): a run of initialize() returns true and leaves the service
\* ready exactly when at least one probe succeeded, and a run without survivors
\* halts the application's startup.
C2_ReadyIffSurvivorElseFatal ==
    Finished("initialize") =>
        /\ A.ret.flag <=> Survivors # <<>>
        /\ initialized <=> Survivors # <<>>
        /\ Survivors = <<>> => app = "halted"

\* C3 (as claimed): after a successful initialize() in which the configured
\* default is not among the survivors, the effective default is the first
\* survivor of that run, and health_check reports the effective default.
C3_ConfiguredDefaultSubstituted ==
    /\ (Finished("initialize") /\ A.ret.flag
            /\ settings.DEFAULT_LLM_PROVIDER \notin KeySet(SelectSeq(A.probes, LAMBDA ad : ad.probe)))
          => default_provider = Survivors[1]
    /\ Finished("health_check") => A.health_status.default_provider = default_provider

\* C3 (amended): after a successful initialize() the effective default is a key
\* of the registry: it is the default the service held when the run began if
\* that is a key, and the first key of the registry otherwise; when the run
\* began with an empty registry that first key is the first survivor of the
\* run.  health_check reports the effective default.
C3_HeldDefaultSubstituted ==
    /\ (Finished("initialize") /\ A.ret.flag) =>
          /\ default_provider \in KeySet(providers)
          /\ A.default0 \in KeySet(providers) => default_provider = A.default0
          /\ A.default0 \notin KeySet(providers) => default_provider = Keys(providers)[1]
          /\ (A.keys0 = <<>> /\ A.default0 \notin KeySet(providers))
                => default_provider = Survivors[1]
    /\ Finished("health_check") => A.health_status.default_provider = default_provider

C3_Witness ==
    /\ Finished("health_check")
    /\ initialized
    /\ A.health_status.default_provider # settings.DEFAULT_LLM_PROVIDER
    /\ A.health_status.default_provider = Keys(providers)[1]
    /\ Len(providers) >= 2

\* C4: whenever the service is ready, its default provider id is a key of the
\* registry.
C4_ReadyDefaultRegistered ==
    initialized => default_provider \in KeySet(providers)

C4_Witness ==
    /\ initialized
    /\ Finished("initialize")
    /\ A.keys0 # <<>>
    /\ default_provider # settings.DEFAULT_LLM_PROVIDER
    /\ \E k \in 1..Len(A.probes) : ~A.probes[k].probe

\* C5: the adapters called by generate_text are the target followed by the
\* other registered adapters in registry order, each at most once and the
\* target never again, every call carries the request given to the target, a
\* call is made only after all earlier ones failed, and when all fail every
\* other adapter has been tried.
C5_FailoverOrderAndRequest ==
    (A.op \in GenOps /\ A.calls # <<>>) =>
        /\ Len(A.calls) <= Len(AttemptOrder)
        /\ \A k \in 1..Len(A.calls) :
              /\ A.calls[k].provider = AttemptOrder[k]
              /\ A.calls[k].req = A.req
              /\ k < Len(A.calls) => ~A.calls[k].ok
        /\ (A.pc = "done" /\ AllFailed /\ Len(providers) > 1)
              => Len(A.calls) = Len(AttemptOrder)
        /\ (A.pc # "done") => AllFailed

C5_Witness ==
    /\ Finished("generate_text")
    /\ Len(A.calls) = 3
    /\ AllFailed
    /\ A.req.extras # None
    /\ A.calls[1].provider # Keys(providers)[1]

\* C6: a response returned by generate_text is the response of the last
\* adapter called, every adapter called before it failed, and so it is the
\* first success in the failover order and nothing is called after it.
C6_FirstSuccessWins ==
    (Finished("generate_text") /\ A.ret.kind = "return") =>
        LET last == A.calls[Len(A.calls)]
        IN  /\ Len(A.calls) >= 1
            /\ last.ok
            /\ A.ret.response.provider = last.provider
            /\ A.ret.response.content = last.content
            /\ \A k \in 1..(Len(A.calls) - 1) : ~A.calls[k].ok
            /\ last.provider = AttemptOrder[Len(A.calls)]

C6_Witness ==
    /\ Finished("generate_text")
    /\ A.ret.kind = "return"
    /\ Len(providers) = 3
    /\ Len(A.calls) = 3
    /\ A.provider_name = Keys(providers)[1]
    /\ A.ret.response.provider = Keys(providers)[3]

\* C7: when the target and every fallback failed, generate_text raises the
\* target adapter's error.
C7_OriginalErrorRaised ==
    (A.op \in GenOps /\ A.pc = "done" /\ A.calls # <<>> /\ AllFailed) =>
        /\ A.ret.kind = "raise"
        /\ A.ret.error = ProviderError(A.calls[1].provider)
        /\ A.calls[1].provider = A.provider_name

C7_Witness ==
    /\ Finished("generate_text")
    /\ Len(A.calls) = 3
    /\ AllFailed
    /\ A.ret.kind = "raise"
    /\ A.ret.error.provider = A.provider_name
    /\ A.calls[3].provider # A.provider_name

\* C8: with exactly one registered adapter, a failing generate_text has made
\* one adapter call when it ends, and it ends at once with that adapter's error.
C8_SingleAdapterNoFallback ==
    (A.op \in GenOps /\ Len(providers) = 1 /\ A.calls # <<>> /\ ~A.calls[1].ok) =>
        /\ A.pc = "done"
        /\ Len(A.calls) = 1
        /\ A.ret.kind = "raise"
        /\ A.ret.error = ProviderError(providers[1].id)

C8_Witness ==
    /\ Finished("generate_text")
    /\ Len(providers) = 1
    /\ Len(A.calls) = 1
    /\ A.ret.kind = "raise"
    /\ A.ret.error.type = "provider_error"

ReadyOps ==
    {"generate_text", "generate_streaming", "generate_user_stories",
     "health_check", "get_provider_stats"}

\* C9 (as claimed): each of the five operations, called while the service is
\* not ready, ends with the not-initialized error.
C9_AllOperationsRequireReady ==
    (A.op \in ReadyOps /\ A.pc = "done" /\ ~initialized) =>
        /\ A.ret.kind = "raise"
        /\ A.ret.error = NotInitializedError

\* C9 (amended): generate_text, generate_streaming and generate_user_stories,
\* called while the service is not ready, end with the not-initialized error
\* and call no adapter; health_check and get_provider_stats do not check
\* readiness: health_check returns a report that says initialized = false, and
\* get_provider_stats answers from the registry as it is (all its keys, or
\* not-found for an id that is not a key).
C9_GenerationRequiresReady ==
    (A.pc = "done" /\ ~initialized) =>
        /\ A.op \in {"generate_text", "generate_streaming", "generate_user_stories"} =>
              /\ A.ret.kind = "raise"
              /\ A.ret.error = NotInitializedError
              /\ A.calls = <<>>
        /\ A.op = "health_check" =>
              /\ A.ret.kind = "return"
              /\ A.health_status.initialized = FALSE
              /\ Len(A.health_status.providers) = Len(providers)
        /\ A.op = "get_provider_stats" =>
              \/ A.ret.kind = "return" /\ A.provider \in {None, ""}
                    /\ Keys(A.ret.stats) = Keys(providers)
              \/ A.ret.kind = "raise" /\ A.ret.error = NotFoundError(A.provider)
                    /\ A.provider \notin KeySet(providers)

C9_Witness ==
    /\ Finished("generate_user_stories")
    /\ ~initialized
    /\ A.ret.kind = "raise"
    /\ A.ret.error.type = "not_initialized"
    /\ default_provider # settings.DEFAULT_LLM_PROVIDER

\* C10: in the ready state, generate_text and generate_streaming given an id
\* that is not a key of the registry end with the provider-unavailable error
\* that names that id and lists the keys of the registry in order, and call no
\* adapter; given no id they call the adapter of the current default provider.
C10_UnknownProviderRejected ==
    (A.op \in {"generate_text", "generate_streaming"} /\ initialized) =>
        /\ (A.provider \notin {None, ""} /\ A.provider \notin KeySet(providers)) =>
              /\ A.pc = "done"
              /\ A.ret.kind = "raise"
              /\ A.ret.error.type = "not_available"
              /\ A.ret.error.provider = A.provider
              /\ A.ret.error.available = Keys(providers)
              /\ A.calls = <<>>
        /\ A.provider = None =>
              /\ A.provider_name = default_provider
              /\ A.pc # "idle"
              /\ A.calls # <<>> => A.calls[1].provider = default_provider
              /\ A.pc = "done" => A.calls # <<>>

C10_Witness ==
    /\ Finished("generate_streaming")
    /\ initialized
    /\ A.ret.error.type = "not_available"
    /\ Len(A.ret.error.available) = 2
    /\ A.provider \in ProviderIds

\* C11: generate_streaming calls the resolved target adapter only, whatever
\* the number of registered adapters, and a failure of that adapter's stream,
\* before the first fragment or after some, ends the call with that adapter's
\* error.
C11_StreamingNoFailover ==
    (A.op = "generate_streaming" /\ A.calls # <<>>) =>
        /\ Len(A.calls) = 1
        /\ A.calls[1].provider = ResolveProvider(A.provider, default_provider)
        /\ A.calls[1].provider = A.provider_name
        /\ A.calls[1].req = A.req
        /\ ~A.calls[1].ok =>
              /\ A.pc = "done"
              /\ A.ret = Raised(ProviderError(A.provider_name))
        /\ (A.pc = "done" /\ A.ret.kind = "raise") => ~A.calls[1].ok

C11_Witness ==
    /\ Finished("generate_streaming")
    /\ Len(providers) >= 2
    /\ A.provider_name # Keys(providers)[1]
    /\ A.ret.error = ProviderError(A.provider_name)
    /\ Len(A.received) >= 1

\* the number of chunks of a text of L characters
Chunks(L) == (L + chunk_size - 1) \div chunk_size

\* C12: the consumer of generate_streaming receives the adapter's fragments in
\* the order of emission, none lost or repeated; for the Gemini adapter, which
\* cuts its text into chunks of chunk_size characters, the fragments received
\* so far concatenate to a prefix of the text, every fragment but the last is
\* a full chunk, and a stream that ends (the consumer has not abandoned it) has
\* delivered exactly the chunks of the text, whose concatenation is the text.
C12_FragmentsReproduceText ==
    A.op = "generate_streaming" =>
        /\ A.received = A.emitted
        /\ (A.provider_name = "gemini" /\ A.calls # <<>> /\ A.calls[1].ok) =>
              /\ Concat(A.received) = SubSeq(A.response, 1, Len(Concat(A.received)))
              /\ \A k \in 1..Len(A.received) :
                    /\ A.received[k] # <<>>
                    /\ k < Len(A.received) => Len(A.received[k]) = chunk_size
                    /\ Len(A.received[k]) <= chunk_size
              /\ (A.pc = "done" /\ A.ret.kind # "closed") =>
                    /\ A.ret.kind = "return"
                    /\ Concat(A.received) = A.response
                    /\ Len(A.received) = Chunks(Len(A.response))

C12_Witness ==
    /\ Finished("generate_streaming")
    /\ A.provider_name = "gemini"
    /\ A.ret.kind = "return"
    /\ Len(A.response) = MaxStreamLen
    /\ Len(A.received) = 3
    /\ Concat(A.received) = A.response

\* the step in which an adapter's generate_text, called for task "a", fails
FailedCallStep ==
    /\ call'["a"].op = A.op
    /\ Len(call'["a"].calls) = Len(A.calls) + 1
    /\ ~call'["a"].calls[Len(A.calls) + 1].ok

\* C13: the step in which an adapter's generate_text fails raises that
\* adapter's error_count by one and leaves its total_requests, total_tokens,
\* total_cost, average_latency and last_request, and the stats of every other
\* adapter, as they were.
C13_FailureCountsOnlyError ==
    [][FailedCallStep =>
          LET failed == call'["a"].calls[Len(A.calls) + 1].provider
          IN  /\ Len(providers') = Len(providers)
              /\ \A n \in 1..Len(providers) :
                    /\ providers'[n].id = providers[n].id
                    /\ providers'[n].usage_stats =
                          IF providers[n].id = failed
                          THEN [providers[n].usage_stats EXCEPT !.error_count = @ + 1]
                          ELSE providers[n].usage_stats]_vars

C13_Witness ==
    /\ A.op = "generate_text"
    /\ Len(A.calls) = 1
    /\ ~A.calls[1].ok
    /\ Len(providers) = 2
    /\ A.calls[1].provider = providers[1].id
    /\ providers[1].usage_stats.error_count = 1
    /\ providers[1].usage_stats.total_requests = 1
    /\ providers[1].usage_stats.total_tokens > 0
    /\ providers[1].usage_stats.last_request = 1
    /\ providers[2].usage_stats.total_requests = 1

\* C14: a health_check that no initialize() or close() overlaps probes the
\* registered adapters once each, in registry order and with its own probe
\* request, and returns a report with exactly one entry per registered id:
\* "healthy" with a latency where the probe succeeded, "unhealthy" with that
\* adapter's error where it failed, whatever the other probes did; it does
\* not raise.
C14_HealthReportPerAdapter ==
    A.op = "health_check" =>
        /\ Len(A.calls) = Len(A.health_status.providers)
        /\ Len(A.calls) <= Len(providers)
        /\ \A k \in 1..Len(A.calls) :
              LET entry == A.health_status.providers[k]
              IN  /\ A.calls[k].provider = providers[k].id
                  /\ A.calls[k].req = HealthRequest
                  /\ entry.provider = providers[k].id
                  /\ A.calls[k].ok =>
                        /\ entry.status = "healthy"
                        /\ entry.latency
                        /\ entry.error = NoError
                  /\ ~A.calls[k].ok =>
                        /\ entry.status = "unhealthy"
                        /\ ~entry.latency
                        /\ entry.error = ProviderError(providers[k].id)
        /\ A.pc = "done" =>
              /\ A.ret.kind = "return"
              /\ Len(A.calls) = Len(providers)

C14_Witness ==
    /\ Finished("health_check")
    /\ Len(providers) = 3
    /\ A.health_status.providers[1].status = "unhealthy"
    /\ A.health_status.providers[2].status = "healthy"
    /\ A.health_status.providers[3].status = "unhealthy"

\* C15: get_provider_stats given an id that is not a key of the registry
\* raises the not-found error naming it; given no id it returns one entry per
\* registered id, each with that adapter's stats; given a registered id it
\* returns the stats of that adapter and of no other.
C15_ProviderStats ==
    Finished("get_provider_stats") =>
        /\ (A.provider \notin {None, ""} /\ A.provider \notin KeySet(providers)) =>
              /\ A.ret.kind = "raise"
              /\ A.ret.error = NotFoundError(A.provider)
        /\ A.provider \in {None, ""} =>
              /\ A.ret.kind = "return"
              /\ Keys(A.ret.stats) = Keys(providers)
              /\ \A n \in 1..Len(providers) :
                    A.ret.stats[n].usage_stats = providers[n].usage_stats
        /\ A.provider \in KeySet(providers) =>
              /\ A.ret.kind = "return"
              /\ Len(A.ret.stats) = 1
              /\ A.ret.stats[1].id = A.provider
              /\ A.ret.stats[1].usage_stats = Lookup(providers, A.provider).usage_stats

C15_Witness ==
    /\ Finished("get_provider_stats")
    /\ A.provider = "ollama"
    /\ Len(providers) = 2
    /\ A.ret.kind = "return"
    /\ A.ret.stats[1].usage_stats.total_requests = 1
    /\ providers[1].usage_stats.total_requests = 2

\* the content of the response that generate_user_stories parsed
Content == A.calls[Len(A.calls)].content

Parsed == Finished("generate_user_stories") /\ A.calls # <<>> /\ A.calls[Len(A.calls)].ok

\* text[i..j] is a JSON array and every token around it is prose, at least one
Embedded(text, i, j) ==
    /\ 1 <= i /\ i < j /\ j <= Len(text)
    /\ i > 1 \/ j < Len(text)
    /\ \A k \in 1..Len(text) : (k < i \/ k > j) => text[k] = "w"
    /\ JsonLoads(SubSeq(text, i, j)).ok
    /\ JsonLoads(SubSeq(text, i, j)).val.type = "array"

\* C16: when the model's text is one JSON array with prose around it,
\* generate_user_stories returns the records of that array; for the text
\* prose, [A], prose it returns exactly one record, with title "A".
C16_EmbeddedArrayReturned ==
    Parsed =>
        /\ \A i, j \in 1..Len(Content) :
              Embedded(Content, i, j) =>
                  /\ A.ret.kind = "return"
                  /\ A.ret.stories = JsonLoads(SubSeq(Content, i, j)).val
        /\ Content = <<"w", "[", "A", "]", "w">> =>
              /\ A.ret.kind = "return"
              /\ A.ret.stories.type = "array"
              /\ Len(A.ret.stories.items) = 1
              /\ A.ret.stories.items[1].title = "A"

C16_Witness ==
    /\ Parsed
    /\ Content = <<"w", "[", "A", "]", "w">>
    /\ A.ret.kind = "return"
    /\ Len(A.ret.stories.items) = 1
    /\ A.ret.stories.items[1].title = "A"

\* the model text is not parsed into a JSON array: it is no JSON document and
\* has no bracketed span, or its bracketed span is no JSON document, or the
\* whole text is a JSON value that is not an array
Unparseable(text) ==
    \/ ~JsonLoads(text).ok /\ ~BracketSearch(text).found
    \/ ~JsonLoads(text).ok /\ BracketSearch(text).found
           /\ ~JsonLoads(BracketSearch(text).span).ok
    \/ JsonLoads(text).ok /\ JsonLoads(text).val.type # "array"

EmptyArray == [type |-> "array", title |-> None, items |-> <<>>]

\* C17 (as claimed): for every model text that is not parsed into a JSON array,
\* generate_user_stories returns an empty sequence and does not raise.
C17_UnparseableReturnsEmpty ==
    (Parsed /\ Unparseable(Content)) =>
        /\ A.ret.kind = "return"
        /\ A.ret.stories = EmptyArray

\* C18 (as stated): close() leaves the registry empty and the service not
\* ready, and every generate_text or generate_streaming call started after a
\* close() ends with the not-initialized error and calls no adapter.
C18_EveryCallAfterCloseRefused ==
    /\ Finished("close") => (providers = <<>> /\ ~initialized)
    /\ (closed /\ A.pc = "done" /\ A.op \in {"generate_text", "generate_streaming"}) =>
          /\ A.ret.kind = "raise"
          /\ A.ret.error = NotInitializedError
          /\ A.calls = <<>>

\* C18 (amended): close() leaves the registry empty and the service not ready;
\* a generate_text or generate_streaming call started after a close() and
\* before a later initialize() has made the service ready again ends with the
\* not-initialized error and calls no adapter.
C18_CallsRefusedUntilReinitialized ==
    /\ Finished("close") => (providers = <<>> /\ ~initialized)
    /\ (closed /\ ~initialized /\ A.pc = "done"
            /\ A.op \in {"generate_text", "generate_streaming"}) =>
          /\ A.ret.kind = "raise"
          /\ A.ret.error = NotInitializedError
          /\ A.calls = <<>>

\* a streaming call made after close() has been refused
C18_Witness ==
    /\ closed /\ ~initialized /\ providers = <<>>
    /\ A.pc = "done" /\ A.op = "generate_streaming"
    /\ A.ret.kind = "raise" /\ A.ret.error = NotInitializedError

\* C19 (as stated): closed is a final state: once close() has run, the service
\* is never ready again, whatever initialize() and close() calls follow.
C19_ClosedIsFinal == closed => ~initialized

\* the step in which an initialize() run ends having registered an adapter
SuccessfulInitializeStep ==
    /\ A.op = "initialize" /\ A.pc = "probe"
    /\ A'.op = "initialize" /\ A'.pc = "done"
    /\ A'.ret.kind = "return" /\ A'.ret.flag
    /\ Survivors' # <<>>

CloseStep == A'.op = "close" /\ A'.pc = "done" /\ A.pc \in {"idle", "done"}

\* C19 (amended): the service has two states, not ready and ready. It becomes
\* ready only at the end of an initialize() run in which an adapter answered
\* its probe, and it leaves ready only through close(); close() puts it back
\* in the not-ready state, from which a later initialize() makes it ready
\* again.
C19_ReadyOnlyByInitializeUnreadyOnlyByClose ==
    [][ /\ (~initialized /\ initialized') => SuccessfulInitializeStep
        /\ (initialized /\ ~initialized') => CloseStep
        /\ CloseStep => ~initialized' ]_vars

\* after a close(), an initialize() run has made the service ready again
C19_Witness ==
    /\ closed /\ initialized
    /\ Finished("initialize") /\ A.ret.flag
    /\ Survivors # <<>>

\* C20: no request-scoped value outlives its request on an adapter: a
\* generate_text call made without a max-token bound runs with the adapter's
\* configured bound, whatever bounds earlier calls on the adapter (health_check's
\* probe included) were given, and every call runs with its own temperature.
C20_NoRequestValueOutlivesItsRequest ==
    (scope = "adapters" /\ A.op = "generate_text") =>
        \A i \in 1..Len(A.calls) :
            LET entry == A.calls[i]
            IN  /\ entry.ran.temperature = entry.req.temperature
                /\ entry.req.max_tokens = 0 =>
                       entry.ran.max_tokens = ConfiguredMaxTokens(entry.provider)

B == call["b"]

\* the step in which an adapter's generate_text, called for task t, comes back
CompletedCallStep(t) ==
    /\ call[t].op = "generate_text"
    /\ call'[t].op = call[t].op
    /\ Len(call'[t].calls) = Len(call[t].calls) + 1

Counted(stats) == stats.total_requests + stats.error_count

\* C21: however generate_text calls on one adapter overlap, every call that
\* comes back is counted: the step raises total_requests + error_count of the
\* adapter it was made on by exactly one and its total_tokens by the tokens the
\* call reported (none for a failed call), and leaves the counters of every
\* other adapter alone; so n completed calls raise them by n and by the sum.
C21_NoLostUpdate ==
    [][\A t \in Tasks : CompletedCallStep(t) =>
          LET entry == call'[t].calls[Len(call[t].calls) + 1]
          IN  /\ Len(providers') = Len(providers)
              /\ \A n \in 1..Len(providers) :
                    LET old == providers[n].usage_stats
                        new == providers'[n].usage_stats
                        on  == providers[n].id = entry.provider
                    IN  /\ providers'[n].id = providers[n].id
                        /\ Counted(new) = Counted(old) + (IF on THEN 1 ELSE 0)
                        /\ new.total_tokens = old.total_tokens
                               + (IF on /\ entry.ok THEN entry.tokens_used ELSE 0)]_vars

\* task "b" called the OpenAI adapter after task "a" did and its call came back
\* with tokens while that of "a" is still in flight: the adapter holds the
\* temperature of "b" and has counted the call of "b"
C21_Witness ==
    /\ mode = "concurrent"
    /\ A.op = "generate_text" /\ A.pc = "target" /\ A.provider_name = "openai"
    /\ A.ran.temperature # Lookup(providers, "openai").temperature
    /\ B.op = "generate_text" /\ B.pc = "done" /\ B.ret.kind = "return"
    /\ B.ret.response.provider = "openai"
    /\ B.ran.temperature = Lookup(providers, "openai").temperature
    /\ Lookup(providers, "openai").usage_stats.total_requests = 2
    /\ Lookup(providers, "openai").usage_stats.total_tokens = 10

\* the position of the "]" that closes the bracket opened before position n,
\* depth brackets being open at n; 0 when the text ends first
RECURSIVE MatchingClose(_, _, _)
MatchingClose(text, n, depth) ==
    IF n > Len(text) THEN 0
    ELSE IF text[n] = "[" THEN MatchingClose(text, n + 1, depth + 1)
    ELSE IF text[n] = "]"
         THEN IF depth = 1 THEN n ELSE MatchingClose(text, n + 1, depth - 1)
    ELSE MatchingClose(text, n + 1, depth)

\* the first balanced [...] span of the text: from the first "[" to the "]"
\* that matches it
FirstBalanced(text) ==
    LET opens == Positions(text, "[")
        closing == IF opens = {} THEN 0 ELSE MatchingClose(text, Min(opens) + 1, 1)
    IN  IF closing = 0 THEN [found |-> FALSE, span |-> <<>>]
        ELSE [found |-> TRUE, span |-> SubSeq(text, Min(opens), closing)]

\* C22: when json.loads of the whole text fails and the first balanced [...]
\* span of the text is a JSON array, generate_user_stories returns the records
\* of that array, whatever bracketed text follows it.
C22_FirstBalancedSpanParsed ==
    (Parsed /\ ~JsonLoads(Content).ok /\ FirstBalanced(Content).found
        /\ JsonLoads(FirstBalanced(Content).span).ok) =>
            /\ A.ret.kind = "return"
            /\ A.ret.stories = JsonLoads(FirstBalanced(Content).span).val

\* C23: an adapter's initialize() returns false when its backend is
\* unavailable in an expected way, and the adapter is then not registered;
\* when the probe meets an unexpected transport fault, the error leaves the
\* adapter's initialize() instead of being turned into false.
C23_FaultPropagates ==
    A.op = "initialize" =>
        \A k \in 1..Len(A.probes) :
            /\ A.probes[k].outcome = "unavailable" =>
                  /\ ~A.probes[k].probe /\ ~A.probes[k].raised
                  /\ A.probes[k].id \in KeySet(providers) =>
                        \E j \in 1..Len(A.keys0) : A.keys0[j] = A.probes[k].id
            /\ A.probes[k].outcome = "fault" => A.probes[k].raised

\* the settings hold what provider p needs: its api key (for Azure also its
\* endpoint and deployment name); Ollama needs none
Credentialed(s, p) ==
    CASE p = "openai" -> s.OPENAI_API_KEY
      [] p = "azure"  -> s.AZURE_OPENAI_API_KEY /\ s.AZURE_OPENAI_ENDPOINT
                            /\ s.AZURE_OPENAI_DEPLOYMENT_NAME
      [] p = "claude" -> s.CLAUDE_API_KEY
      [] p = "gemini" -> s.GEMINI_API_KEY
      [] p = "ollama" -> TRUE

\* C24: in a run of initialize(), every provider whose credential is
\* configured is probed exactly once, whichever provider is the configured
\* default and whatever became of the other providers, and every provider
\* whose probe succeeded is registered.
C24_EveryCredentialedProviderProbed ==
    Finished("initialize") =>
        /\ \A p \in ProviderIds :
              Credentialed(settings, p) =>
                  Cardinality({k \in 1..Len(A.probes) : A.probes[k].id = p}) = 1
        /\ \A k \in 1..Len(A.probes) :
              A.probes[k].probe => A.probes[k].id \in KeySet(providers)

\* the step in which an adapter's generate_text, called for task "a", succeeds
SucceededCallStep ==
    /\ call'["a"].op = A.op
    /\ Len(call'["a"].calls) = Len(A.calls) + 1
    /\ call'["a"].calls[Len(A.calls) + 1].ok

\* C25: average_latency is the arithmetic mean of the latencies of the
\* adapter's successful calls: a successful call of latency L takes
\* average_latency * total_requests from the sum so far to that sum plus L,
\* also when L is zero.
C25_AverageLatencyIsMean ==
    [][SucceededCallStep =>
          LET entry == call'["a"].calls[Len(A.calls) + 1]
              old   == Lookup(providers, entry.provider).usage_stats
              new   == Lookup(providers', entry.provider).usage_stats
          IN  new.average_latency.num * new.total_requests * old.average_latency.den
                  = (old.average_latency.num * old.total_requests
                         + entry.latency * old.average_latency.den)
                        * new.average_latency.den]_vars

\* the step in which an adapter's generate_text, called for task "a" by
\* generate_text, generate_user_stories or health_check, comes back
AdapterCallStep ==
    /\ call'["a"].op = A.op
    /\ Len(call'["a"].calls) = Len(A.calls) + 1
    /\ A.op # "generate_streaming"

\* C26: total_requests + error_count of an adapter is the number of its
\* completed generate_text calls: every call that comes back, be it the target
\* call, a fallback call or a probe of health_check, raises total_requests of
\* the adapter by one when it succeeded and its error_count by one when it
\* failed, and changes the sum of no other adapter; no other step changes the
\* sum of an adapter, and an adapter registered by initialize() starts at zero.
C26_CountedIsCompletedCalls ==
    [][IF AdapterCallStep
       THEN LET entry == call'["a"].calls[Len(A.calls) + 1]
            IN  /\ Len(providers') = Len(providers)
                /\ \A n \in 1..Len(providers) :
                      LET old == providers[n].usage_stats
                          new == providers'[n].usage_stats
                          on  == providers[n].id = entry.provider
                      IN  /\ providers'[n].id = providers[n].id
                          /\ new.total_requests = old.total_requests
                                 + (IF on /\ entry.ok THEN 1 ELSE 0)
                          /\ new.error_count = old.error_count
                                 + (IF on /\ ~entry.ok THEN 1 ELSE 0)
       ELSE \A n \in 1..Len(providers') :
                LET new == providers'[n].usage_stats
                IN  \/ /\ n <= Len(providers)
                       /\ providers[n].id = providers'[n].id
                       /\ Counted(new) = Counted(providers[n].usage_stats)
                    \/ /\ call'["a"].op = "initialize"
                       /\ Counted(new) = 0]_vars

\* an adapter that served a generate_text before is found healthy by
\* health_check, the other one unhealthy
C26_Witness ==
    /\ scope = "adapters"
    /\ Finished("health_check")
    /\ Len(A.calls) = 2
    /\ A.calls[1].ok /\ ~A.calls[2].ok
    /\ providers[1].usage_stats.total_requests = 2
    /\ providers[1].usage_stats.error_count = 0
    /\ providers[2].usage_stats.total_requests = 0
    /\ providers[2].usage_stats.error_count = 1

\* C27: a step of generate_text, generate_streaming, generate_user_stories,
\* health_check or get_provider_stats, whether the operation succeeds or
\* fails, leaves the keys of the registry and their order, the default
\* provider id and the ready flag as they were; only steps of initialize()
\* and close() change them.
C27_OnlyInitializeAndCloseChangeRegistry ==
    [][call'["a"].op \notin {"initialize", "close"} =>
          /\ Keys(providers') = Keys(providers)
          /\ default_provider' = default_provider
          /\ initialized' = initialized]_vars

\* every adapter failed the generate_text that has just ended, the default
\* among them, and they are all still registered, the service still ready
C27_Witness ==
    /\ Finished("generate_text")
    /\ A.ret.kind = "raise"
    /\ Len(A.calls) = 3
    /\ AllFailed
    /\ initialized
    /\ A.calls[1].provider = default_provider
    /\ \A k \in 1..3 : A.calls[k].provider \in KeySet(providers)

\* C28: no step of a streaming generation, be it the opening of the stream, a
\* fragment, the end, an error or the consumer abandoning the stream, changes
\* the usage stats of any adapter.
C28_StreamingLeavesStatsAlone ==
    [][call'["a"].op = "generate_streaming" =>
          /\ Len(providers') = Len(providers)
          /\ \A n \in 1..Len(providers) :
                providers'[n].usage_stats = providers[n].usage_stats]_vars

\* a stream of an adapter that has served a generate_text failed after its
\* first fragment, and the adapter's counters are those of that one call
C28_Witness ==
    /\ scope = "adapters"
    /\ Finished("generate_streaming")
    /\ A.ret.kind = "raise"
    /\ A.received # <<>>
    /\ Lookup(providers, A.provider_name).usage_stats.total_requests = 1
    /\ Lookup(providers, A.provider_name).usage_stats.error_count = 0
    /\ Lookup(providers, A.provider_name).temperature = A.req.temperature

\* C29: a health_check or generate_text that was suspended at an adapter call
\* while close() or initialize() ran ends in a defined way: health_check
\* returns its report, generate_text returns a response or raises the error of
\* its target adapter; none ends with an error that comes from the registry
\* having changed.
C29_InFlightCallsEndDefined ==
    /\ (Finished("health_check") /\ A.calls # <<>>) => A.ret.kind = "return"
    /\ (Finished("generate_text") /\ A.calls # <<>>) =>
          \/ A.ret.kind = "return"
          \/ A.ret.kind = "raise" /\ A.ret.error = ProviderError(A.provider_name)

\* the response of a generate_text names the adapter that produced it: the
\* adapter called last, after every adapter called before it failed; that is
\* the requested or default provider when no failover took place, and a
\* fallback otherwise
ResponseNamesProducer ==
    LET last == A.calls[Len(A.calls)]
    IN  /\ A.calls # <<>>
        /\ last.ok
        /\ \A k \in 1..(Len(A.calls) - 1) : ~A.calls[k].ok
        /\ A.ret.response.provider = last.provider
        /\ A.ret.response.content = last.content
        /\ A.calls[1].provider = A.provider_name
        /\ Len(A.calls) = 1 => A.ret.response.provider = A.provider_name
        /\ Len(A.calls) > 1 =>
              /\ A.ret.response.provider # A.provider_name
              /\ \E k \in 1..Len(A.fallback_providers) :
                    A.fallback_providers[k] = A.ret.response.provider

====
